---- MODULE Spec2Model ----
(***************************************************************************)
(* Order-book reconstruction engine (OrderBookReconstructor): a checkpoint *)
(* is loaded into a two-sided price -> level store, deltas are applied in  *)
(* sequence order, and snapshots are rendered from the store.              *)
(*                                                                         *)
(* Conventions of the model                                                *)
(*   - a JavaScript number (or undefined) is a record [kind, num, den]:    *)
(*     kind "fin" is the rational num/den (den is 1 or 2), kind "NaN" is   *)
(*     NaN, kind "undefined" is the value undefined;                       *)
(*   - a JavaScript string is a sequence of one-character strings; an      *)
(*     absent (undefined) string field is UndefinedStr;                    *)
(*   - a Map is the sequence of its entries [key, value] in insertion      *)
(*     order, keys pairwise distinct.                                      *)
(***************************************************************************)
EXTENDS Integers, Sequences, FiniteSets, TLC

VARIABLES
    bids,           \* this.bids: Map<number, InternalLevel>
    asks,           \* this.asks: Map<number, InternalLevel>
    coin,           \* this.coin
    lastTimestamp,  \* this.lastTimestamp
    lastSequence,   \* this.lastSequence
    tickData,       \* the caller's TickData {checkpoint, deltas}
    callerOptions,  \* the caller's ReconstructOptions {depth, emitAll}
    gen,            \* the generator object made by iterate()
    ret,            \* the last completed call: name, arguments, outcome, value
    that,           \* a second OrderBookReconstructor: its five fields
    gen2            \* a second generator object, on this instance or on that

vars == <<bids, asks, coin, lastTimestamp, lastSequence, tickData, callerOptions, gen, ret,
          that, gen2>>

(***************************************************************************)
(* Bounds of the model.                                                    *)
(***************************************************************************)
MaxLevels == 2      \* levels of a checkpoint, both sides together
MaxDeltas == 2      \* deltas of a tick data record
MaxGapDeltas == 3   \* deltas of a list given to detectGaps

(***************************************************************************)
(* JavaScript values.                                                      *)
(***************************************************************************)
NaN == [kind |-> "NaN", num |-> 0, den |-> 1]
Undefined == [kind |-> "undefined", num |-> 0, den |-> 1]
Int2Num(n) == [kind |-> "fin", num |-> n, den |-> 1]
UndefinedStr == <<"undefined">>

IsFinite(x) == x.kind = "fin"

\* ToBoolean of a number or undefined: false for undefined, NaN and 0.
Truthy(x) == x.kind = "fin" /\ x.num # 0

\* x - y on integral operands; NaN when either operand is not a number.
Sub(x, y) ==
    IF x.kind = "fin" /\ y.kind = "fin" THEN Int2Num(x.num - y.num) ELSE NaN

\* x + y on integral operands.
Add(x, y) ==
    IF x.kind = "fin" /\ y.kind = "fin" THEN Int2Num(x.num + y.num) ELSE NaN

\* x / 2 on an integral operand, exact.
Halve(x) ==
    IF x.kind # "fin" THEN NaN
    ELSE IF x.num % 2 = 0 THEN Int2Num(x.num \div 2)
    ELSE [kind |-> "fin", num |-> x.num, den |-> 2]

\* x > y, x < y in IEEE arithmetic: false when either operand is NaN.
NumGt(x, y) == x.kind = "fin" /\ y.kind = "fin" /\ x.num * y.den > y.num * x.den
NumLt(x, y) == NumGt(y, x)

(***************************************************************************)
(* Strings: parseFloat and Number.prototype.toString.                      *)
(***************************************************************************)
Digits == <<"0", "1", "2", "3", "4", "5", "6", "7", "8", "9">>
IsDigit(c) == \E i \in 1..10 : Digits[i] = c
DigitVal(c) == (CHOOSE i \in 1..10 : Digits[i] = c) - 1

\* The length of the longest prefix of s made of decimal digits.
RECURSIVE DigitPrefixLen(_)
DigitPrefixLen(s) ==
    IF s = <<>> \/ ~IsDigit(Head(s)) THEN 0 ELSE 1 + DigitPrefixLen(Tail(s))

RECURSIVE DigitsValue(_, _)
DigitsValue(s, n) ==
    IF n = 0 THEN 0 ELSE 10 * DigitsValue(s, n - 1) + DigitVal(s[n])

\* parseFloat(s): the value of the longest prefix of s that is a decimal
\* literal, NaN when no prefix is one; what follows the prefix is ignored.
\* (The inputs of the model are unsigned and have no fraction or exponent.)
ParseFloat(s) ==
    LET n == DigitPrefixLen(s)
    IN  IF n = 0 THEN NaN ELSE Int2Num(DigitsValue(s, n))

RECURSIVE NatToString(_)
NatToString(n) ==
    IF n < 10 THEN <<Digits[n + 1]>>
    ELSE NatToString(n \div 10) \o <<Digits[(n % 10) + 1]>>

\* x.toString() of a number.
NumToString(x) ==
    IF x.kind = "NaN" THEN <<"N", "a", "N">>
    ELSE LET neg == x.num < 0
             mag == IF neg THEN 0 - x.num ELSE x.num
             body == IF x.den = 1 THEN NatToString(mag)
                     ELSE NatToString(mag \div 2) \o <<".", "5">>
         IN  IF neg THEN <<"-">> \o body ELSE body

\* x?.toString() of a number or undefined.
OptToString(x) == IF x.kind = "undefined" THEN UndefinedStr ELSE NumToString(x)

\* new Date(t).toISOString(): the instant of t in the canonical rendering.
\* A timestamp is a pair <<rendering, instant>>.
ToISOString(t) == <<"iso", t[2]>>

(***************************************************************************)
(* Map<number, InternalLevel>.                                             *)
(***************************************************************************)
EmptyMap == <<>>

MapHas(m, k) == \E i \in 1..Len(m) : m[i].key = k

\* Map.prototype.set: an existing key keeps its place, a new key goes last.
MapSet(m, k, v) ==
    IF MapHas(m, k)
    THEN [i \in 1..Len(m) |-> IF m[i].key = k THEN [key |-> k, value |-> v] ELSE m[i]]
    ELSE Append(m, [key |-> k, value |-> v])

\* Map.prototype.delete.
MapDelete(m, k) == SelectSeq(m, LAMBDA e : e.key # k)

\* Array.from(map.values()).
MapValues(m) == [i \in 1..Len(m) |-> m[i].value]

(***************************************************************************)
(* The reconstructor's state as one value, and its three primitives.       *)
(***************************************************************************)
This == [bids |-> bids, asks |-> asks, coin |-> coin,
         lastTimestamp |-> lastTimestamp, lastSequence |-> lastSequence]

\* A reconstructor right after construction (the field initialisers).
NewReconstructor ==
    [bids |-> EmptyMap, asks |-> EmptyMap, coin |-> <<>>,
     lastTimestamp |-> <<"empty", 0>>, lastSequence |-> 0]

\* One of the two loops of initialize: every level of the list is parsed
\* and set under its parsed price.
RECURSIVE LoadLevels(_, _)
LoadLevels(m, levels) ==
    IF levels = <<>> THEN m
    ELSE LET level == Head(levels)
             price == ParseFloat(level.px)
         IN  LoadLevels(MapSet(m, price,
                               [price |-> price,
                                size |-> ParseFloat(level.sz),
                                orders |-> level.n]),
                        Tail(levels))

\* A wrong variant of initializeOn: the two books are not cleared.
initializeOnNoClear(st, checkpoint) ==
    [bids |-> LoadLevels(st.bids, checkpoint.bids),
     asks |-> LoadLevels(st.asks, checkpoint.asks),
     coin |-> checkpoint.coin,
     lastTimestamp |-> checkpoint.timestamp,
     lastSequence |-> 0]

\* initialize(checkpoint) on state st: both books are cleared, then loaded
\* from the checkpoint. It has no throw statement.
initializeOn(st, checkpoint) ==
    LET cleared == [st EXCEPT !.bids = EmptyMap, !.asks = EmptyMap]
    IN  [bids |-> LoadLevels(cleared.bids, checkpoint.bids),
         asks |-> LoadLevels(cleared.asks, checkpoint.asks),
         coin |-> checkpoint.coin,
         lastTimestamp |-> checkpoint.timestamp,
         lastSequence |-> 0]

\* this.initialize(checkpoint): the state it leaves.
initialize(checkpoint) == initializeOn(This, checkpoint)

\* A wrong variant of ApplyToBook: no test of the size, a zero-size delta is
\* stored as a level.
ApplyToBookStoreZero(book, delta) ==
    MapSet(book, delta.price,
           [price |-> delta.price, size |-> delta.size, orders |-> 1])

\* A wrong variant of ApplyToBook: a resident level keeps its order count.
ApplyToBookKeepOrders(book, delta) ==
    IF delta.size = Int2Num(0)
    THEN MapDelete(book, delta.price)
    ELSE MapSet(book, delta.price,
                [price |-> delta.price, size |-> delta.size,
                 orders |-> IF MapHas(book, delta.price)
                            THEN (CHOOSE e \in {book[i] : i \in 1..Len(book)} :
                                      e.key = delta.price).value.orders
                            ELSE 1])

\* The branch of applyDelta on delta.size, on the selected book.
ApplyToBook(book, delta) ==
    IF delta.size = Int2Num(0)
    THEN MapDelete(book, delta.price)
    ELSE MapSet(book, delta.price,
                [price |-> delta.price, size |-> delta.size, orders |-> 1])

\* A wrong variant of applyDelta: the last sequence is a running maximum.
applyDeltaRunningMax(st, delta) ==
    [st EXCEPT
        !.bids = IF delta.side = "bid" THEN ApplyToBook(st.bids, delta) ELSE @,
        !.asks = IF delta.side = "bid" THEN @ ELSE ApplyToBook(st.asks, delta),
        !.lastTimestamp = ToISOString(delta.timestamp),
        !.lastSequence = IF delta.sequence > @ THEN delta.sequence ELSE @]

\* applyDelta(delta) on state st.
applyDelta(st, delta) ==
    [st EXCEPT
        !.bids = IF delta.side = "bid" THEN ApplyToBook(st.bids, delta) ELSE @,
        !.asks = IF delta.side = "bid" THEN @ ELSE ApplyToBook(st.asks, delta),
        !.lastTimestamp = ToISOString(delta.timestamp),
        !.lastSequence = delta.sequence]

\* The comparators of getSnapshot: (a, b) => b.price - a.price for bids,
\* (a, b) => a.price - b.price for asks.
CompareLevels(side, a, b) ==
    IF side = "bid" THEN Sub(b.price, a.price) ELSE Sub(a.price, b.price)

\* Array.prototype.sort on levels: a stable insertion sort. A comparator
\* result that is NaN counts as 0 (ECMAScript SortCompare), so a NaN price
\* compares equal to every price; where the sort then leaves that level is
\* up to the engine, and no property below depends on it.
InsertLevel(side, sorted, x) ==
    LET keep == {j \in 1..Len(sorted) :
                    ~NumGt(CompareLevels(side, sorted[j], x), Int2Num(0))}
        j == IF keep = {} THEN 0 ELSE CHOOSE k \in keep : \A l \in keep : l <= k
    IN  SubSeq(sorted, 1, j) \o <<x>> \o SubSeq(sorted, j + 1, Len(sorted))

RECURSIVE SortLevelsFrom(_, _, _)
SortLevelsFrom(side, sorted, rest) ==
    IF rest = <<>> THEN sorted
    ELSE SortLevelsFrom(side, InsertLevel(side, sorted, Head(rest)), Tail(rest))

SortLevels(side, levels) == SortLevelsFrom(side, <<>>, levels)

\* toLevel: the internal level in the API format.
toLevel(level) ==
    [px |-> NumToString(level.price), sz |-> NumToString(level.size), n |-> level.orders]

\* (depth ? sorted.slice(0, depth) : sorted).map(this.toLevel)
DepthLimit(sorted, depth) ==
    LET kept == IF Truthy(depth)
                THEN SubSeq(sorted, 1, IF depth.num < Len(sorted) THEN depth.num ELSE Len(sorted))
                ELSE sorted
    IN  [i \in 1..Len(kept) |-> toLevel(kept[i])]

\* sorted[0]?.price
BestPrice(sorted) == IF sorted = <<>> THEN Undefined ELSE sorted[1].price

\* bestBid && bestAsk ? (bestBid + bestAsk) / 2 : undefined
MidPrice(bestBid, bestAsk) ==
    IF Truthy(bestBid) /\ Truthy(bestAsk) THEN Halve(Add(bestBid, bestAsk)) ELSE Undefined

\* bestBid && bestAsk ? bestAsk - bestBid : undefined
Spread(bestBid, bestAsk) ==
    IF Truthy(bestBid) /\ Truthy(bestAsk) THEN Sub(bestAsk, bestBid) ELSE Undefined

\* (numer / denom).toFixed(2) for denom > 0: the magnitude is rounded to the
\* nearest hundredth, a tie upwards, and the sign of the value is kept.
ToFixed2(numer, denom) ==
    LET mag == IF numer < 0 THEN 0 - numer ELSE numer
        h == (2 * mag * 100 + denom) \div (2 * denom)
        cents == h % 100
        body == NatToString(h \div 100) \o <<".">>
                    \o <<Digits[(cents \div 10) + 1], Digits[(cents % 10) + 1]>>
    IN  IF numer < 0 THEN <<"-">> \o body ELSE body

\* (midPrice && spread ? (spread / midPrice) * 10000 : undefined)?.toFixed(2)
SpreadBps(midPrice, spread) ==
    IF Truthy(midPrice) /\ Truthy(spread)
    THEN ToFixed2(spread.num * midPrice.den * 10000, midPrice.num * spread.den)
    ELSE UndefinedStr

\* getSnapshot(depth) on state st.
getSnapshot(st, depth) ==
    LET sortedBids == SortLevels("bid", MapValues(st.bids))
        sortedAsks == SortLevels("ask", MapValues(st.asks))
        bestBid == BestPrice(sortedBids)
        bestAsk == BestPrice(sortedAsks)
        midPrice == MidPrice(bestBid, bestAsk)
        spread == Spread(bestBid, bestAsk)
    IN  [coin |-> st.coin,
         timestamp |-> st.lastTimestamp,
         bids |-> DepthLimit(sortedBids, depth),
         asks |-> DepthLimit(sortedAsks, depth),
         midPrice |-> OptToString(midPrice),
         spread |-> OptToString(spread),
         spreadBps |-> SpreadBps(midPrice, spread),
         sequence |-> st.lastSequence]

(***************************************************************************)
(* The replay driver.                                                      *)
(***************************************************************************)
\* A wrong variant of InsertDelta: an unstable sort, a delta goes before the
\* deltas of the same sequence number that came earlier in the list.
InsertDeltaBeforeEqual(sorted, x) ==
    LET keep == {j \in 1..Len(sorted) : sorted[j].sequence < x.sequence}
        j == IF keep = {} THEN 0 ELSE CHOOSE k \in keep : \A l \in keep : l <= k
    IN  SubSeq(sorted, 1, j) \o <<x>> \o SubSeq(sorted, j + 1, Len(sorted))

\* [...deltas].sort((a, b) => a.sequence - b.sequence): a stable sort of a
\* copy of the list; the caller's list is not written.
InsertDelta(sorted, x) ==
    LET keep == {j \in 1..Len(sorted) : ~(sorted[j].sequence - x.sequence > 0)}
        j == IF keep = {} THEN 0 ELSE CHOOSE k \in keep : \A l \in keep : l <= k
    IN  SubSeq(sorted, 1, j) \o <<x>> \o SubSeq(sorted, j + 1, Len(sorted))

\* A wrong variant of SortDeltas: the list is replayed as given.
SortDeltasUnsorted(deltas) == deltas

RECURSIVE SortDeltasFrom(_, _)
SortDeltasFrom(sorted, rest) ==
    IF rest = <<>> THEN sorted
    ELSE SortDeltasFrom(InsertDelta(sorted, Head(rest)), Tail(rest))

SortDeltas(deltas) == SortDeltasFrom(<<>>, deltas)

\* A wrong variant of EmitAll: the option is ignored.
EmitAllAlways(options) == TRUE

\* const { depth, emitAll = true } = options
EmitAll(options) == options.emitAll # "false"

\* A run of the driver: the state it has reached, the snapshots it has
\* emitted and (history) the deltas it has applied, in order.
Run(st, snapshots, applied) == [st |-> st, snapshots |-> snapshots, applied |-> applied]

\* A wrong variant of the loop: the snapshot is taken before the delta is
\* applied.
RECURSIVE ReconstructAllLoopStale(_, _, _, _)
ReconstructAllLoopStale(run, sortedDeltas, depth, emitAll) ==
    IF sortedDeltas = <<>> THEN run
    ELSE ReconstructAllLoopStale(
             Run(applyDelta(run.st, Head(sortedDeltas)),
                 IF emitAll THEN Append(run.snapshots, getSnapshot(run.st, depth))
                 ELSE run.snapshots,
                 Append(run.applied, Head(sortedDeltas))),
             Tail(sortedDeltas), depth, emitAll)

\* The loop of reconstructAll over the sorted deltas.
RECURSIVE ReconstructAllLoop(_, _, _, _)
ReconstructAllLoop(run, sortedDeltas, depth, emitAll) ==
    IF sortedDeltas = <<>> THEN run
    ELSE LET st == applyDelta(run.st, Head(sortedDeltas))
         IN  ReconstructAllLoop(
                 Run(st,
                     IF emitAll THEN Append(run.snapshots, getSnapshot(st, depth))
                     ELSE run.snapshots,
                     Append(run.applied, Head(sortedDeltas))),
                 Tail(sortedDeltas), depth, emitAll)

\* reconstructAll(checkpoint, deltas, options)
reconstructAll(checkpoint, deltas, options) ==
    LET emitAll == EmitAll(options)
        st0 == initialize(checkpoint)
        sortedDeltas == SortDeltas(deltas)
        first == IF emitAll THEN <<getSnapshot(st0, options.depth)>> ELSE <<>>
        run == ReconstructAllLoop(Run(st0, first, <<>>), sortedDeltas, options.depth, emitAll)
    IN  IF emitAll THEN run
        ELSE Run(run.st, Append(run.snapshots, getSnapshot(run.st, options.depth)), run.applied)

\* The loop of reconstructFinal over the sorted deltas.
RECURSIVE ReconstructFinalLoop(_, _)
ReconstructFinalLoop(run, sortedDeltas) ==
    IF sortedDeltas = <<>> THEN run
    ELSE ReconstructFinalLoop(
             Run(applyDelta(run.st, Head(sortedDeltas)), run.snapshots,
                 Append(run.applied, Head(sortedDeltas))),
             Tail(sortedDeltas))

\* A wrong variant of reconstructFinal: the depth is not passed on to
\* getSnapshot.
reconstructFinalNoDepth(checkpoint, deltas, depth) ==
    LET run == ReconstructFinalLoop(Run(initialize(checkpoint), <<>>, <<>>), SortDeltas(deltas))
    IN  Run(run.st, <<getSnapshot(run.st, Undefined)>>, run.applied)

\* reconstructFinal(checkpoint, deltas, depth); the one snapshot it returns
\* is the only element of the run's snapshots.
reconstructFinal(checkpoint, deltas, depth) ==
    LET run == ReconstructFinalLoop(Run(initialize(checkpoint), <<>>, <<>>), SortDeltas(deltas))
    IN  Run(run.st, <<getSnapshot(run.st, depth)>>, run.applied)

\* A wrong variant of the loop of detectGaps: only a sequence number above
\* the expected one is recorded.
DetectGapsLoopForwardOnly(sorted, i, gaps) ==
    LET pairs == [k \in 1..Len(sorted) - 1 |->
                     <<sorted[k].sequence + 1, sorted[k + 1].sequence>>]
    IN  gaps \o SelectSeq(SubSeq(pairs, i - 1, Len(pairs)), LAMBDA p : p[2] > p[1])

\* The loop of detectGaps from index i (1-based: the code's i + 1), gaps
\* being the pairs pushed so far.
RECURSIVE DetectGapsLoop(_, _, _)
DetectGapsLoop(sorted, i, gaps) ==
    IF i > Len(sorted) THEN gaps
    ELSE LET expected == sorted[i - 1].sequence + 1
             actual == sorted[i].sequence
         IN  DetectGapsLoop(sorted, i + 1,
                            IF actual # expected
                            THEN Append(gaps, <<expected, actual>>)
                            ELSE gaps)

\* static detectGaps(deltas)
detectGaps(deltas) ==
    IF Len(deltas) < 2 THEN <<>>
    ELSE DetectGapsLoop(SortDeltas(deltas), 2, <<>>)

(***************************************************************************)
(* Inputs.                                                                 *)
(***************************************************************************)
SeqsUpTo(S, n) == UNION {[1..k -> S] : k \in 0..n}

\* Wire strings of a checkpoint level: well-formed numbers ("0", "1"), a
\* number followed by garbage ("1x") and no number at all ("x").
PxStrings == {<<"0">>, <<"1">>, <<"1", "x">>, <<"x">>}
SzStrings == {<<"1">>, <<"0">>, <<"x">>}

\* Every price with a well-formed positive size, every size at price "1".
CheckpointLevels ==
    {[px |-> px, sz |-> <<"1">>, n |-> 2] : px \in PxStrings}
        \cup {[px |-> <<"1">>, sz |-> sz, n |-> 2] : sz \in SzStrings}

Checkpoint(b, a) ==
    [coin |-> <<"B", "T", "C">>, timestamp |-> <<"raw", 0>>, bids |-> b, asks |-> a]

\* Checkpoints of at most MaxLevels levels, in any input order.
Checkpoints ==
    {Checkpoint(p[1], p[2]) :
        p \in {q \in SeqsUpTo(CheckpointLevels, MaxLevels)
                        \X SeqsUpTo(CheckpointLevels, MaxLevels) :
                    Len(q[1]) + Len(q[2]) <= MaxLevels}}

\* Well-formed checkpoints for the replay driver.
Level(px, sz, n) == [px |-> px, sz |-> sz, n |-> n]
ReplayCheckpoints ==
    {Checkpoint(<<Level(<<"1">>, <<"1">>, 2)>>, <<Level(<<"2">>, <<"1">>, 2)>>),
     Checkpoint(<<Level(<<"1">>, <<"4">>, 3), Level(<<"2">>, <<"1">>, 2)>>,
                <<Level(<<"1">>, <<"1">>, 2)>>)}

Delta(side, price, size, sequence) ==
    [timestamp |-> <<"raw", sequence>>, side |-> side,
     price |-> Int2Num(price), size |-> Int2Num(size), sequence |-> sequence]

\* Deltas for the primitives: both sides, removals and upserts, price 0.
StoreDeltas ==
    {Delta("bid", 1, 0, 1), Delta("bid", 1, 3, 2), Delta("ask", 1, 3, 1),
     Delta("ask", 0, 3, 2)}

\* Deltas for the replay driver: sequence numbers repeated and with a gap,
\* upserts and removals of one price, both sides.
ReplayDeltas ==
    {Delta("bid", 1, 3, 1), Delta("bid", 1, 0, 2), Delta("bid", 1, 5, 2),
     Delta("ask", 2, 0, 4)}

Depths == {Undefined, Int2Num(0), Int2Num(1)}
EmitAlls == {"undefined", "true", "false"}
NoOptions == [depth |-> Undefined, emitAll |-> "undefined"]

\* Deltas for detectGaps: contiguous sequence numbers and one gap.
GapDeltas == {Delta("bid", 1, 3, 1), Delta("bid", 1, 3, 2), Delta("bid", 1, 3, 3),
              Delta("bid", 1, 3, 5)}

\* The tick data of the second lazy sequence: its own checkpoint and deltas.
OtherTickData ==
    [checkpoint |-> Checkpoint(<<Level(<<"1">>, <<"4">>, 3), Level(<<"2">>, <<"1">>, 2)>>,
                               <<Level(<<"1">>, <<"1">>, 2)>>),
     deltas |-> <<Delta("ask", 1, 3, 2), Delta("bid", 2, 0, 1)>>]

(***************************************************************************)
(* Calls.                                                                  *)
(***************************************************************************)
NoGen == [pc |-> "none", options |-> NoOptions,
          sortedDeltas |-> <<>>, i |-> 0, yielded |-> <<>>, applied |-> <<>>,
          clean |-> TRUE]

Ret(op, opts, value, applied) ==
    [op |-> op, options |-> opts, outcome |-> "returned",
     value |-> value, applied |-> applied]

SetThis(st) ==
    /\ bids' = st.bids
    /\ asks' = st.asks
    /\ coin' = st.coin
    /\ lastTimestamp' = st.lastTimestamp
    /\ lastSequence' = st.lastSequence

\* A wrong variant of Disturbed: the snapshots the generator has yielded are
\* live views of the store, they show what the other call has written.
DisturbedLiveView(g) ==
    IF g.pc \in {"initial", "loop"}
    THEN [g EXCEPT !.clean = FALSE,
                   !.yielded = [k \in 1..Len(g.yielded) |->
                                   getSnapshot(This', g.options.depth)]]
    ELSE g

\* A generator that has started and is suspended is disturbed by any other
\* call that writes the reconstructor.
Disturbed(g) == IF g.pc \in {"initial", "loop"} THEN [g EXCEPT !.clean = FALSE] ELSE g

\* The second generator object before iterate() has made it: on names the
\* instance it will be called on, "this" (the one of gen) or "that".
SecondGen(on) ==
    [pc |-> "none", options |-> NoOptions, sortedDeltas |-> <<>>, i |-> 0,
     yielded |-> <<>>, applied |-> <<>>, on |-> on]

\* No second lazy sequence is in use; the second instance is never called.
NoSecondSequence ==
    /\ that = NewReconstructor
    /\ gen2 = SecondGen("that")

FreshInstance ==
    /\ bids = NewReconstructor.bids
    /\ asks = NewReconstructor.asks
    /\ coin = NewReconstructor.coin
    /\ lastTimestamp = NewReconstructor.lastTimestamp
    /\ lastSequence = NewReconstructor.lastSequence
    /\ gen = NoGen
    /\ ret = Ret("new", NoOptions, <<>>, <<>>)

\* reconstructor.initialize(tickData.checkpoint)
Initialize ==
    /\ SetThis(initialize(tickData.checkpoint))
    /\ ret' = Ret("initialize", NoOptions, <<>>, <<>>)
    /\ gen' = Disturbed(gen)
    /\ UNCHANGED <<tickData, callerOptions, that, gen2>>

\* reconstructor.applyDelta(delta)
ApplyDelta ==
    \E delta \in StoreDeltas :
        /\ SetThis(applyDelta(This, delta))
        /\ ret' = Ret("applyDelta", NoOptions, <<>>, <<delta>>)
        /\ gen' = Disturbed(gen)
        /\ UNCHANGED <<tickData, callerOptions, that, gen2>>

\* reconstructor.getSnapshot(depth)
GetSnapshot ==
    \E depth \in Depths :
        /\ ret' = Ret("getSnapshot", [NoOptions EXCEPT !.depth = depth],
                      <<getSnapshot(This, depth)>>, <<>>)
        /\ UNCHANGED <<bids, asks, coin, lastTimestamp, lastSequence, tickData, callerOptions, gen, that, gen2>>

\* reconstructor.reconstructAll(tickData.checkpoint, tickData.deltas, options)
ReconstructAll ==
    LET run == reconstructAll(tickData.checkpoint, tickData.deltas, callerOptions)
    IN  /\ SetThis(run.st)
        /\ ret' = Ret("reconstructAll", callerOptions, run.snapshots, run.applied)
        /\ gen' = Disturbed(gen)
        /\ UNCHANGED <<tickData, callerOptions, that, gen2>>

\* reconstructor.reconstructFinal(tickData.checkpoint, tickData.deltas, options.depth)
ReconstructFinal ==
    LET run == reconstructFinal(tickData.checkpoint, tickData.deltas, callerOptions.depth)
    IN  /\ SetThis(run.st)
        /\ ret' = Ret("reconstructFinal", [NoOptions EXCEPT !.depth = callerOptions.depth],
                      run.snapshots, run.applied)
        /\ gen' = Disturbed(gen)
        /\ UNCHANGED <<tickData, callerOptions, that, gen2>>

\* A wrong variant of iterate: eager, it initializes when it is called.
IterateEager ==
    /\ SetThis(initialize(tickData.checkpoint))
    /\ gen' = [NoGen EXCEPT !.pc = "start", !.options = callerOptions]
    /\ ret' = Ret("iterate", callerOptions, <<>>, <<>>)
    /\ UNCHANGED <<tickData, callerOptions, that, gen2>>

\* reconstructor.iterate(tickData.checkpoint, tickData.deltas, options):
\* the call makes the generator object and runs none of the body.
Iterate ==
    /\ gen' = [NoGen EXCEPT !.pc = "start", !.options = callerOptions]
    /\ ret' = Ret("iterate", callerOptions, <<>>, <<>>)
    /\ UNCHANGED <<bids, asks, coin, lastTimestamp, lastSequence, tickData, callerOptions, that, gen2>>

\* A wrong variant of the first next(): the first yield renders the book
\* without the depth limit.
IterateFirstNoDepth ==
    /\ gen.pc = "start"
    /\ LET st == initialize(tickData.checkpoint)
           snapshot == getSnapshot(st, Undefined)
       IN  /\ SetThis(st)
           /\ gen' = [gen EXCEPT !.pc = "initial", !.yielded = <<snapshot>>]
           /\ ret' = Ret("next", gen.options, <<snapshot>>, <<>>)
    /\ UNCHANGED <<tickData, callerOptions, that, gen2>>

\* The first next(): initialize, then the first yield.
IterateFirst ==
    /\ gen.pc = "start"
    /\ LET st == initialize(tickData.checkpoint)
           snapshot == getSnapshot(st, gen.options.depth)
       IN  /\ SetThis(st)
           /\ gen' = [gen EXCEPT !.pc = "initial", !.yielded = <<snapshot>>]
           /\ ret' = Ret("next", gen.options, <<snapshot>>, <<>>)
    /\ UNCHANGED <<tickData, callerOptions, that, gen2>>

\* A later next(): the second one sorts the deltas; each applies the next
\* sorted delta and yields, or ends the sequence when none is left.
IterateNext ==
    /\ gen.pc \in {"initial", "loop"}
    /\ LET sortedDeltas == IF gen.pc = "initial" THEN SortDeltas(tickData.deltas)
                           ELSE gen.sortedDeltas
       IN  IF gen.i < Len(sortedDeltas)
           THEN LET delta == sortedDeltas[gen.i + 1]
                    st == applyDelta(This, delta)
                    snapshot == getSnapshot(st, gen.options.depth)
                IN  /\ SetThis(st)
                    /\ gen' = [gen EXCEPT
                                 !.pc = "loop",
                                 !.sortedDeltas = sortedDeltas,
                                 !.i = @ + 1,
                                 !.yielded = Append(@, snapshot),
                                 !.applied = Append(@, delta)]
                    /\ ret' = Ret("next", gen.options, <<snapshot>>, <<delta>>)
           ELSE /\ gen' = [gen EXCEPT !.pc = "done", !.sortedDeltas = sortedDeltas]
                /\ ret' = Ret("next", gen.options, <<>>, <<>>)
                /\ UNCHANGED <<bids, asks, coin, lastTimestamp, lastSequence>>
    /\ UNCHANGED <<tickData, callerOptions, that, gen2>>

\* The consumer leaves the for...of loop early (break): generator.return().
\* pc "closed" is a generator completed this way, "done" one that ran to
\* the end of the body.
IterateReturn ==
    /\ gen.pc \in {"start", "initial", "loop"}
    /\ gen' = [gen EXCEPT !.pc = "closed"]
    /\ ret' = Ret("return", gen.options, <<>>, <<>>)
    /\ UNCHANGED <<bids, asks, coin, lastTimestamp, lastSequence, tickData, callerOptions, that, gen2>>

\* A wrong variant of DetectGaps: the caller's list is sorted in place.
DetectGapsInPlace ==
    /\ ret' = Ret("detectGaps", NoOptions, detectGaps(tickData.deltas), <<>>)
    /\ tickData' = [tickData EXCEPT !.deltas = SortDeltas(@)]
    /\ UNCHANGED <<bids, asks, coin, lastTimestamp, lastSequence, callerOptions, gen, that, gen2>>

\* OrderBookReconstructor.detectGaps(tickData.deltas)
DetectGaps ==
    /\ ret' = Ret("detectGaps", NoOptions, detectGaps(tickData.deltas), <<>>)
    /\ UNCHANGED <<bids, asks, coin, lastTimestamp, lastSequence, tickData, callerOptions, gen, that, gen2>>

\* A wrong variant of InstanceOf: every reconstructor is one shared store.
InstanceOfShared(on) == This

\* The reconstructor a generator was made on: the receiver of iterate().
InstanceOf(on) == IF on = "this" THEN This ELSE that

\* A write of the second sequence to its reconstructor; on the shared
\* instance it disturbs the first sequence.
SetInstance(on, st) ==
    IF on = "this"
    THEN /\ SetThis(st)
         /\ gen' = Disturbed(gen)
         /\ that' = that
    ELSE /\ that' = st
         /\ UNCHANGED <<bids, asks, coin, lastTimestamp, lastSequence, gen>>

\* const other = <this or that>.iterate(OtherTickData.checkpoint,
\* OtherTickData.deltas): a second generator object, nothing runs yet.
IterateOther ==
    /\ gen2' = [SecondGen(gen2.on) EXCEPT !.pc = "start"]
    /\ ret' = Ret("iterateOther", NoOptions, <<>>, <<>>)
    /\ UNCHANGED <<bids, asks, coin, lastTimestamp, lastSequence, tickData, callerOptions,
                   gen, that>>

\* The first next() of the second sequence: initialize, then the first yield.
IterateOtherFirst ==
    /\ gen2.pc = "start"
    /\ LET st == initializeOn(InstanceOf(gen2.on), OtherTickData.checkpoint)
           snapshot == getSnapshot(st, gen2.options.depth)
       IN  /\ SetInstance(gen2.on, st)
           /\ gen2' = [gen2 EXCEPT !.pc = "initial", !.yielded = <<snapshot>>]
           /\ ret' = Ret("nextOther", gen2.options, <<snapshot>>, <<>>)
    /\ UNCHANGED <<tickData, callerOptions>>

\* A later next() of the second sequence.
IterateOtherNext ==
    /\ gen2.pc \in {"initial", "loop"}
    /\ LET sortedDeltas == IF gen2.pc = "initial" THEN SortDeltas(OtherTickData.deltas)
                           ELSE gen2.sortedDeltas
       IN  IF gen2.i < Len(sortedDeltas)
           THEN LET delta == sortedDeltas[gen2.i + 1]
                    st == applyDelta(InstanceOf(gen2.on), delta)
                    snapshot == getSnapshot(st, gen2.options.depth)
                IN  /\ SetInstance(gen2.on, st)
                    /\ gen2' = [gen2 EXCEPT
                                  !.pc = "loop",
                                  !.sortedDeltas = sortedDeltas,
                                  !.i = @ + 1,
                                  !.yielded = Append(@, snapshot),
                                  !.applied = Append(@, delta)]
                    /\ ret' = Ret("nextOther", gen2.options, <<snapshot>>, <<delta>>)
           ELSE /\ gen2' = [gen2 EXCEPT !.pc = "done", !.sortedDeltas = sortedDeltas]
                /\ ret' = Ret("nextOther", gen2.options, <<>>, <<>>)
                /\ UNCHANGED <<bids, asks, coin, lastTimestamp, lastSequence, gen, that>>
    /\ UNCHANGED <<tickData, callerOptions>>

(***************************************************************************)
(* Specifications.                                                         *)
(***************************************************************************)
\* The primitives, driven directly by a caller.
InitStore ==
    /\ FreshInstance
    /\ NoSecondSequence
    /\ tickData \in [checkpoint : Checkpoints, deltas : {<<>>}]
    /\ callerOptions = NoOptions

NextStore == Initialize \/ ApplyDelta \/ GetSnapshot

SpecStore == InitStore /\ [][NextStore]_vars

\* The three replay modes on one reconstructor.
Init ==
    /\ FreshInstance
    /\ NoSecondSequence
    /\ tickData \in [checkpoint : ReplayCheckpoints, deltas : SeqsUpTo(ReplayDeltas, MaxDeltas)]
    /\ callerOptions \in [depth : {Undefined, Int2Num(1)}, emitAll : EmitAlls]

Next ==
    \/ ReconstructAll
    \/ ReconstructFinal
    \/ Iterate
    \/ IterateFirst
    \/ IterateNext
    \/ IterateReturn

Spec == Init /\ [][Next]_vars

\* One caller session that mixes the primitives with the replay modes on one
\* reconstructor, over two checkpoints (the second names one bid price twice)
\* and one delta list given out of order; its deltas are among those the
\* caller also applies directly.
SessionTickData ==
    [checkpoint : {Checkpoint(<<Level(<<"1">>, <<"4">>, 3), Level(<<"2">>, <<"1">>, 2)>>,
                              <<Level(<<"1">>, <<"1">>, 2)>>),
                   Checkpoint(<<Level(<<"1">>, <<"4">>, 3), Level(<<"1">>, <<"1">>, 2)>>,
                              <<Level(<<"1">>, <<"1">>, 2)>>)},
     deltas : {<<Delta("bid", 1, 3, 2), Delta("ask", 1, 3, 1)>>}]

InitSession ==
    /\ FreshInstance
    /\ NoSecondSequence
    /\ tickData \in SessionTickData
    /\ callerOptions = [depth |-> Undefined, emitAll |-> "true"]

NextSession == NextStore \/ Next

SpecSession == InitSession /\ [][NextSession]_vars

\* The static gap detector over delta lists in any order.
InitGaps ==
    /\ FreshInstance
    /\ NoSecondSequence
    /\ tickData \in [checkpoint : {Checkpoint(<<>>, <<>>)},
                     deltas : SeqsUpTo(GapDeltas, MaxGapDeltas)]
    /\ callerOptions = NoOptions

NextGaps == DetectGaps

SpecGaps == InitGaps /\ [][NextGaps]_vars

\* Two lazy sequences whose requests the caller interleaves, the second one
\* made on the same reconstructor as the first or on another one.
InitTwo ==
    /\ FreshInstance
    /\ that = NewReconstructor
    /\ gen2 \in {SecondGen("this"), SecondGen("that")}
    /\ tickData \in [checkpoint : {Checkpoint(<<Level(<<"1">>, <<"1">>, 2)>>,
                                              <<Level(<<"2">>, <<"1">>, 2)>>)},
                     deltas : {<<Delta("bid", 1, 3, 1), Delta("bid", 1, 0, 2)>>,
                               <<Delta("bid", 1, 5, 2), Delta("bid", 1, 3, 1)>>}]
    /\ callerOptions = [depth |-> Undefined, emitAll |-> "true"]

NextTwo ==
    \/ Iterate
    \/ IterateFirst
    \/ IterateNext
    \/ IterateOther
    \/ IterateOtherFirst
    \/ IterateOtherNext

SpecTwo == InitTwo /\ [][NextTwo]_vars

\* The replay modes with the gap detector called before, between and after
\* their steps.
InitDiagnostics ==
    /\ FreshInstance
    /\ NoSecondSequence
    /\ tickData \in [checkpoint : {Checkpoint(<<Level(<<"1">>, <<"1">>, 2)>>,
                                              <<Level(<<"2">>, <<"1">>, 2)>>)},
                     deltas : SeqsUpTo(ReplayDeltas, MaxDeltas)]
    /\ callerOptions = [depth |-> Undefined, emitAll |-> "true"]

NextDiagnostics == Next \/ DetectGaps

SpecDiagnostics == InitDiagnostics /\ [][NextDiagnostics]_vars

(***************************************************************************)
(* Properties of the replay driver (specification Spec).                   *)
(***************************************************************************)
Range(seq) == {seq[i] : i \in 1..Len(seq)}
Count(seq, x) == Cardinality({i \in 1..Len(seq) : seq[i] = x})
Last(seq) == seq[Len(seq)]
IsPrefix(p, seq) == Len(p) <= Len(seq) /\ SubSeq(seq, 1, Len(p)) = p

\* No delta comes after one with a strictly larger sequence number.
Ascending(applied) ==
    \A i, j \in 1..Len(applied) : i < j => applied[i].sequence <= applied[j].sequence

\* Each delta of the list is in applied exactly as often as in the list.
ExactlyOnce(applied, deltas) ==
    \A x \in Range(applied) \cup Range(deltas) : Count(applied, x) = Count(deltas, x)

AtMostOnce(applied, deltas) ==
    \A x \in Range(applied) : Count(applied, x) <= Count(deltas, x)

\* The state after initialize and the first k deltas of the sorted list.
RECURSIVE StateAfter(_, _, _)
StateAfter(checkpoint, sortedDeltas, k) ==
    IF k = 0 THEN initialize(checkpoint)
    ELSE applyDelta(StateAfter(checkpoint, sortedDeltas, k - 1), sortedDeltas[k])

EmitAllTrue(depth) == [depth |-> depth, emitAll |-> "true"]

\* C1: in reconstructAll, reconstructFinal and iterate the deltas are
\* applied in ascending order of sequence number, whatever the order of the
\* input list, and a completed replay has applied every input delta exactly
\* once (a lazy sequence under way has applied none more than once).
C1_AscendingReplay ==
    /\ ret.op \in {"reconstructAll", "reconstructFinal"} =>
           Ascending(ret.applied) /\ ExactlyOnce(ret.applied, tickData.deltas)
    /\ Ascending(gen.applied)
    /\ AtMostOnce(gen.applied, tickData.deltas)
    /\ gen.pc = "done" => ExactlyOnce(gen.applied, tickData.deltas)

\* A lazy sequence has run to its end over a list given in descending order.
C1_Witness ==
    /\ gen.pc = "done"
    /\ Len(tickData.deltas) >= 2
    /\ tickData.deltas[1].sequence > tickData.deltas[2].sequence
    /\ Len(gen.applied) = Len(tickData.deltas)

\* C2: the snapshot reconstructFinal returns equals the last element of
\* reconstructAll with emitAll true for the same checkpoint, deltas and
\* depth, also for an empty delta list.
C2_FinalIsLastOfAll ==
    ret.op = "reconstructFinal" =>
        /\ Len(ret.value) = 1
        /\ ret.value[1] =
               Last(reconstructAll(tickData.checkpoint, tickData.deltas,
                                   EmitAllTrue(ret.options.depth)).snapshots)

\* reconstructFinal has returned for two deltas and a depth that cuts a side.
C2_Witness ==
    /\ ret.op = "reconstructFinal"
    /\ Len(tickData.deltas) = 2
    /\ ret.options.depth = Int2Num(1)
    /\ Len(bids) = 2
    /\ Len(ret.value[1].bids) = 1

\* C3: reconstructAll with emitAll true or unset returns 1 + deltaCount
\* snapshots; element 0 is the checkpoint state, element k the state after
\* the first k deltas of the sorted list.
C3_OnePlusDeltaCount ==
    (ret.op = "reconstructAll" /\ ret.options.emitAll # "false") =>
        /\ Len(ret.value) = 1 + Len(tickData.deltas)
        /\ \A k \in 0..Len(tickData.deltas) :
               ret.value[k + 1] =
                   getSnapshot(StateAfter(tickData.checkpoint,
                                          SortDeltas(tickData.deltas), k),
                               ret.options.depth)

\* reconstructAll has returned three snapshots that differ from one another.
C3_Witness ==
    /\ ret.op = "reconstructAll"
    /\ ret.options.emitAll = "undefined"
    /\ Len(ret.value) = 3
    /\ ret.value[1] # ret.value[2]
    /\ ret.value[2] # ret.value[3]

C5_Step ==
    \* making the sequence runs nothing: the store is as it was
    /\ (gen'.pc = "start" /\ gen # gen') =>
           This' = This /\ gen'.yielded = <<>> /\ gen'.applied = <<>>
    \* k elements requested, k - 1 deltas applied by the sequence
    /\ gen'.pc \in {"initial", "loop"} =>
           /\ Len(gen'.applied) = Len(gen'.yielded) - 1
           /\ gen'.clean =>
                  This' = StateAfter(tickData.checkpoint, SortDeltas(tickData.deltas),
                                     Len(gen'.yielded) - 1)
    \* a request computes one element
    /\ (gen.pc \in {"initial", "loop"} /\ gen'.pc \in {"loop", "done"}) =>
           Len(gen'.yielded) <= Len(gen.yielded) + 1
    \* stopping applies nothing
    /\ (gen'.pc = "closed" /\ gen.pc # "closed") =>
           This' = This /\ gen'.applied = gen.applied /\ gen'.yielded = gen.yielded
    \* a sequence that has stopped or ended applies no delta ever after
    /\ gen.pc \in {"closed", "done"} => (gen' = gen \/ gen'.pc = "start")

\* C5: the lazy sequence does no work ahead of demand. Making it leaves the
\* store untouched; after k requests it has applied k - 1 deltas; once the
\* consumer has stopped it applies no further delta.
C5_NoWorkAheadOfDemand == [][C5_Step]_vars

\* The consumer has stopped after two elements of three: one delta applied,
\* one never applied.
C5_Witness ==
    /\ gen.pc = "closed"
    /\ Len(gen.yielded) = 2
    /\ Len(gen.applied) = 1
    /\ Len(tickData.deltas) = 2
    /\ gen.clean
    /\ This = StateAfter(tickData.checkpoint, SortDeltas(tickData.deltas), 1)

\* C18: reconstructAll with emitAll false returns one snapshot only, taken
\* after all sorted deltas have been applied, equal to the one
\* reconstructFinal returns for the same checkpoint, deltas and depth.
C18_FinalOnly ==
    (ret.op = "reconstructAll" /\ ret.options.emitAll = "false") =>
        /\ Len(ret.value) = 1
        /\ ret.value[1] =
               reconstructFinal(tickData.checkpoint, tickData.deltas,
                                ret.options.depth).snapshots[1]
        /\ Len(ret.applied) = Len(tickData.deltas)
        /\ ret.value[1] =
               getSnapshot(StateAfter(tickData.checkpoint, SortDeltas(tickData.deltas),
                                      Len(tickData.deltas)),
                           ret.options.depth)

\* reconstructAll with emitAll false has returned for two deltas; its one
\* snapshot differs from the checkpoint state and from the state after the
\* first delta.
C18_Witness ==
    /\ ret.op = "reconstructAll"
    /\ ret.options.emitAll = "false"
    /\ Len(tickData.deltas) = 2
    /\ Len(ret.value) = 1
    /\ \A k \in 0..1 :
           ret.value[1] # getSnapshot(StateAfter(tickData.checkpoint,
                                                 SortDeltas(tickData.deltas), k),
                                      ret.options.depth)

\* The deltas of a list that carry sequence number s, in the list's order.
TiesOf(deltas, s) == SelectSeq(deltas, LAMBDA d : d.sequence = s)

SequenceNumbers(deltas) == {deltas[i].sequence : i \in 1..Len(deltas)}

\* Delta j of the input list is the last one applied to its side and price.
LastOnItsLevel(deltas, j) ==
    \A k \in 1..Len(deltas) :
        (k # j /\ deltas[k].side = deltas[j].side /\ deltas[k].price = deltas[j].price) =>
            \/ deltas[k].sequence < deltas[j].sequence
            \/ deltas[k].sequence = deltas[j].sequence /\ k < j

\* The store holds at the delta's price, on its side, what the delta sets.
LevelSetBy(delta) ==
    LET book == IF delta.side = "bid" THEN bids ELSE asks
    IN  IF delta.size = Int2Num(0)
        THEN \A i \in 1..Len(book) : book[i].key # delta.price
        ELSE \E i \in 1..Len(book) :
                 /\ book[i].key = delta.price
                 /\ book[i].value = [price |-> delta.price, size |-> delta.size,
                                     orders |-> 1]

\* The store is the one the last call left: a batch replay, or the lazy
\* sequence run to its end with no other call in between.
ReplayJustEnded ==
    \/ ret.op \in {"reconstructAll", "reconstructFinal"}
    \/ ret.op = "next" /\ gen.pc = "done" /\ gen.clean

\* C19: in all three replay modes the deltas of one sequence number are
\* replayed in their relative input order, so of two such deltas for the
\* same side and price the later one of the input list sets the level.
C19_TiesInInputOrder ==
    /\ ret.op \in {"reconstructAll", "reconstructFinal"} =>
           \A s \in SequenceNumbers(tickData.deltas) :
               TiesOf(ret.applied, s) = TiesOf(tickData.deltas, s)
    /\ \A s \in SequenceNumbers(tickData.deltas) :
           /\ IsPrefix(TiesOf(gen.applied, s), TiesOf(tickData.deltas, s))
           /\ gen.pc = "done" => TiesOf(gen.applied, s) = TiesOf(tickData.deltas, s)
    /\ ReplayJustEnded =>
           \A i, j \in 1..Len(tickData.deltas) :
               (/\ i < j
                /\ tickData.deltas[i].sequence = tickData.deltas[j].sequence
                /\ tickData.deltas[i].side = tickData.deltas[j].side
                /\ tickData.deltas[i].price = tickData.deltas[j].price
                /\ LastOnItsLevel(tickData.deltas, j)) =>
                   LevelSetBy(tickData.deltas[j])

\* The lazy sequence has run to its end over a removal followed by an upsert
\* of the same bid price with the same sequence number: the level is there,
\* with the size of the upsert.
C19_Witness ==
    /\ ret.op = "next"
    /\ gen.pc = "done"
    /\ gen.clean
    /\ Len(tickData.deltas) = 2
    /\ tickData.deltas[1].sequence = tickData.deltas[2].sequence
    /\ tickData.deltas[1].side = tickData.deltas[2].side
    /\ tickData.deltas[1].price = tickData.deltas[2].price
    /\ tickData.deltas[1].size = Int2Num(0)
    /\ tickData.deltas[2].size # Int2Num(0)
    /\ LevelSetBy(tickData.deltas[2])

(***************************************************************************)
(* Properties of the store and the serializer (specification SpecStore).   *)
(***************************************************************************)
AllDepths == {Undefined, Int2Num(0), Int2Num(1), Int2Num(2), Int2Num(3)}

\* A level one of whose two numbers does not parse to a finite number.
Malformed(level) ==
    ~IsFinite(ParseFloat(level.px)) \/ ~IsFinite(ParseFloat(level.sz))

CheckpointLevelsOf(checkpoint) == Range(checkpoint.bids) \cup Range(checkpoint.asks)

HasMalformed(checkpoint) == \E level \in CheckpointLevelsOf(checkpoint) : Malformed(level)

\* A resident level whose price or size is not a finite number.
StoresMalformed ==
    \E e \in Range(bids) \cup Range(asks) :
        ~IsFinite(e.value.price) \/ ~IsFinite(e.value.size)

\* C6: initialize fails with a ParseError whenever a level of the checkpoint
\* has a price or size that is not a finite number, and stores no such
\* level.
C6_ParseErrorOnMalformed ==
    (ret.op = "initialize" /\ HasMalformed(tickData.checkpoint)) =>
        ret.outcome = "ParseError" /\ ~StoresMalformed

\* The rendering a checkpoint level has when it is loaded as it is.
Rendered(level) ==
    [px |-> NumToString(ParseFloat(level.px)),
     sz |-> NumToString(ParseFloat(level.sz)), n |-> level.n]

\* Every level of the checkpoint has its price resident on its side.
HoldsEveryLevel(checkpoint) ==
    /\ \A level \in Range(checkpoint.bids) : MapHas(bids, ParseFloat(level.px))
    /\ \A level \in Range(checkpoint.asks) : MapHas(asks, ParseFloat(level.px))

\* The rendered book shows a malformed level while a well-formed level of
\* the checkpoint is missing from it.
PartialWithMalformed(checkpoint) ==
    LET snapshot == getSnapshot(This, Undefined)
    IN  /\ \E level \in Range(snapshot.bids) \cup Range(snapshot.asks) : Malformed(level)
        /\ \/ \E level \in Range(checkpoint.bids) :
                  ~Malformed(level) /\ Rendered(level) \notin Range(snapshot.bids)
           \/ \E level \in Range(checkpoint.asks) :
                  ~Malformed(level) /\ Rendered(level) \notin Range(snapshot.asks)

\* C7: initialize is all-or-nothing. The call fails or both sides hold every
\* level of the checkpoint, and after the call the rendered book is never
\* one made of part of the well-formed levels and a malformed one.
C7_AllOrNothing ==
    ret.op = "initialize" =>
        /\ ret.outcome = "ParseError" \/ HoldsEveryLevel(tickData.checkpoint)
        /\ ~PartialWithMalformed(tickData.checkpoint)

\* C8: no side of the store holds a level of size 0.
C8_NoZeroSizeResident ==
    \A e \in Range(bids) \cup Range(asks) : e.value.size # Int2Num(0)

Prices(levels) == [i \in 1..Len(levels) |-> ParseFloat(levels[i].px)]

StrictlyDescending(prices) ==
    \A i \in 1..(Len(prices) - 1) : NumGt(prices[i], prices[i + 1])

StrictlyAscending(prices) ==
    \A i \in 1..(Len(prices) - 1) : NumLt(prices[i], prices[i + 1])

NoDuplicate(seq) == \A i, j \in 1..Len(seq) : i # j => seq[i] # seq[j]

\* C9: for every depth getSnapshot renders the bids strictly descending and
\* the asks strictly ascending by price, no price twice on a side.
C9_StrictlyOrdered ==
    \A depth \in AllDepths :
        LET snapshot == getSnapshot(This, depth)
        IN  /\ StrictlyDescending(Prices(snapshot.bids))
            /\ StrictlyAscending(Prices(snapshot.asks))
            /\ NoDuplicate([i \in 1..Len(snapshot.bids) |-> snapshot.bids[i].px])
            /\ NoDuplicate([i \in 1..Len(snapshot.asks) |-> snapshot.asks[i].px])

\* C10: getSnapshot gives midPrice = (bestBid + bestAsk) / 2 and
\* spread = bestAsk - bestBid when both sides hold a level, whatever the
\* two prices, and gives neither when a side is empty.
C10_MetricsIffBothSides ==
    \A depth \in AllDepths :
        LET snapshot == getSnapshot(This, depth)
            bestBid == BestPrice(SortLevels("bid", MapValues(bids)))
            bestAsk == BestPrice(SortLevels("ask", MapValues(asks)))
        IN  IF bids # EmptyMap /\ asks # EmptyMap
            THEN /\ snapshot.midPrice = NumToString(Halve(Add(bestBid, bestAsk)))
                 /\ snapshot.spread = NumToString(Sub(bestAsk, bestBid))
            ELSE /\ snapshot.midPrice = UndefinedStr
                 /\ snapshot.spread = UndefinedStr

\* C11: spreadBps is present in the snapshot whenever midPrice and spread
\* both are, also for a spread of 0 and for a negative spread.
C11_SpreadBpsWithMetrics ==
    \A depth \in AllDepths :
        LET snapshot == getSnapshot(This, depth)
        IN  (snapshot.midPrice # UndefinedStr /\ snapshot.spread # UndefinedStr) =>
                snapshot.spreadBps # UndefinedStr

Min(a, b) == IF a < b THEN a ELSE b

\* The levels of a side as getSnapshot orders them, all of them.
AllRendered(side) ==
    LET sorted == SortLevels(side, MapValues(IF side = "bid" THEN bids ELSE asks))
    IN  [i \in 1..Len(sorted) |-> toLevel(sorted[i])]

\* C12: for every given depth d >= 0, 0 included, getSnapshot(d) returns
\* min(d, n) levels per side, the first ones of the ordered side; with no
\* depth given it returns every level.
C12_DepthLimit ==
    \A depth \in AllDepths :
        LET snapshot == getSnapshot(This, depth)
            want(side) ==
                IF depth.kind = "undefined" THEN AllRendered(side)
                ELSE SubSeq(AllRendered(side), 1, Min(depth.num, Len(AllRendered(side))))
        IN  /\ snapshot.bids = want("bid")
            /\ snapshot.asks = want("ask")
            /\ depth.kind # "undefined" =>
                   /\ Len(snapshot.bids) = Min(depth.num, Len(bids))
                   /\ Len(snapshot.asks) = Min(depth.num, Len(asks))

\* The entries of a book, as a set.
Entries(book) == {book[i] : i \in 1..Len(book)}

\* The book a delta names, and the other one, before and after a step.
BookOf(delta) == IF delta.side = "bid" THEN bids ELSE asks
BookOfNext(delta) == IF delta.side = "bid" THEN bids' ELSE asks'
OtherBookUnchanged(delta) ==
    IF delta.side = "bid" THEN asks' = asks ELSE bids' = bids

\* Every entry at another price is after the step what it was before.
OtherEntriesUnchanged(delta) ==
    {e \in Entries(BookOfNext(delta)) : e.key # delta.price}
        = {e \in Entries(BookOf(delta)) : e.key # delta.price}

C13_Step ==
    (ret'.op = "applyDelta" /\ ret'.applied[1].size = Int2Num(0)) =>
        LET delta == ret'.applied[1]
        IN  /\ ~MapHas(BookOfNext(delta), delta.price)
            /\ OtherEntriesUnchanged(delta)
            /\ Len(BookOfNext(delta)) =
                   Len(BookOf(delta)) - (IF MapHas(BookOf(delta), delta.price) THEN 1 ELSE 0)
            /\ ~MapHas(BookOf(delta), delta.price) => BookOfNext(delta) = BookOf(delta)
            /\ OtherBookUnchanged(delta)
            /\ applyDelta(This', delta) = This'

\* C13: applyDelta with size 0 removes exactly the entry at delta.price on
\* the side delta.side when it is resident, and leaves both sides as they
\* were when it is not (applying it again changes nothing); every other
\* entry of that side and the other side stay unchanged.
C13_ZeroSizeRemoves == [][C13_Step]_vars

\* A zero-size bid delta at price 1 was the last call on a store whose
\* checkpoint had bids at 1 and at another price: only the other one is left.
C13_Witness ==
    /\ ret.op = "applyDelta"
    /\ ret.applied[1].size = Int2Num(0)
    /\ ret.applied[1].side = "bid"
    /\ \E l \in Range(tickData.checkpoint.bids) : ParseFloat(l.px) = ret.applied[1].price
    /\ Len(bids) = 1
    /\ bids[1].key # ret.applied[1].price

C14_Step ==
    (ret'.op = "applyDelta" /\ NumGt(ret'.applied[1].size, Int2Num(0))) =>
        LET delta == ret'.applied[1]
            at == {i \in 1..Len(BookOfNext(delta)) : BookOfNext(delta)[i].key = delta.price}
        IN  /\ Cardinality(at) = 1
            /\ \A i \in at :
                   BookOfNext(delta)[i].value =
                       [price |-> delta.price, size |-> delta.size, orders |-> 1]
            /\ OtherEntriesUnchanged(delta)
            /\ Len(BookOfNext(delta)) =
                   Len(BookOf(delta)) + (IF MapHas(BookOf(delta), delta.price) THEN 0 ELSE 1)
            /\ OtherBookUnchanged(delta)

\* C14: applyDelta with size > 0 leaves exactly one entry at delta.price on
\* the side delta.side, with size delta.size and order count 1, whether the
\* price was resident or new; every other entry of that side and the other
\* side stay unchanged.
C14_PositiveSizeSets == [][C14_Step]_vars

\* A positive bid delta was the last call on a store whose checkpoint had a
\* bid at the same price with order count 2 and a bid at another price: the
\* side still has two levels, the one at the delta's price with count 1.
C14_Witness ==
    /\ ret.op = "applyDelta"
    /\ ret.applied[1].side = "bid"
    /\ NumGt(ret.applied[1].size, Int2Num(0))
    /\ \E l \in Range(tickData.checkpoint.bids) :
           ParseFloat(l.px) = ret.applied[1].price /\ l.n = 2
    /\ Len(bids) = 2
    /\ \E i \in 1..2 : /\ bids[i].key = ret.applied[1].price
                       /\ bids[i].value.size = ret.applied[1].size
                       /\ bids[i].value.orders = 1

(***************************************************************************)
(* Properties of a mixed session (specification SpecSession).              *)
(***************************************************************************)
\* The sequence numbers of a list of snapshots never go down.
NonDecreasing(snapshots) ==
    \A i \in 1..Len(snapshots) - 1 : snapshots[i].sequence <= snapshots[i + 1].sequence

C15_Step ==
    /\ ret'.op = "initialize" =>
           \A depth \in AllDepths : getSnapshot(This', depth).sequence = 0
    /\ ret'.op = "applyDelta" =>
           \A depth \in AllDepths :
               getSnapshot(This', depth).sequence = ret'.applied[1].sequence
    /\ ret'.op = "getSnapshot" =>
           /\ ret'.value[1].sequence = lastSequence
           /\ lastSequence' = lastSequence
    /\ (ret'.op = "reconstructAll" /\ EmitAll(ret'.options)) =>
           /\ Len(ret'.value) = Len(tickData.deltas) + 1
           /\ ret'.value[1].sequence = 0
           /\ NonDecreasing(Tail(ret'.value))

\* C15: the sequence getSnapshot reports is 0 from initialize until a delta
\* is applied, and otherwise that of the delta applied last, also when it is
\* lower than or equal to the one before; in the result of reconstructAll
\* with emitAll true the sequences of elements 1..deltaCount never go down.
C15_SequenceIsLastApplied == [][C15_Step]_vars

\* The last call applied a delta with sequence 1 and the snapshot reports 1,
\* while the ask at price 0 is resident: only the delta with sequence 2 sets
\* it, so that one was applied earlier, after the last initialize.
C15_Witness ==
    /\ ret.op = "applyDelta"
    /\ ret.applied[1].sequence = 1
    /\ getSnapshot(This, Undefined).sequence = 1
    /\ MapHas(asks, Int2Num(0))

\* The distinct prices of the levels of a checkpoint side.
DistinctPrices(levels) == {ParseFloat(l.px) : l \in Range(levels)}

\* The keys of a book.
Keys(book) == {book[i].key : i \in 1..Len(book)}

\* The state and the snapshots of a fresh instance after initialize.
FreshlyInitialized == initializeOn(NewReconstructor, tickData.checkpoint)

\* C17: after any earlier operations, the snapshot taken right after
\* initialize(checkpoint) is the one a fresh instance gives for the same
\* checkpoint, and the store holds one level per distinct bid price and per
\* distinct ask price of the checkpoint and no other level.
C17_InitializeResets ==
    /\ ret.op = "initialize" =>
           /\ \A depth \in AllDepths :
                  getSnapshot(This, depth) = getSnapshot(FreshlyInitialized, depth)
           /\ Keys(bids) = DistinctPrices(tickData.checkpoint.bids)
           /\ Len(bids) = Cardinality(DistinctPrices(tickData.checkpoint.bids))
           /\ Keys(asks) = DistinctPrices(tickData.checkpoint.asks)
           /\ Len(asks) = Cardinality(DistinctPrices(tickData.checkpoint.asks))
    /\ (ret.op = "next" /\ gen.pc = "initial") =>
           ret.value[1] = getSnapshot(FreshlyInitialized, gen.options.depth)
    /\ (ret.op = "reconstructAll" /\ EmitAll(ret.options)) =>
           ret.value[1] = getSnapshot(FreshlyInitialized, ret.options.depth)

\* initialize was the last call, on a store to which a started lazy sequence
\* had applied a delta that sets the ask at price 1 to a size the checkpoint
\* does not have; the ask is the checkpoint's again.
C17_Witness ==
    /\ ret.op = "initialize"
    /\ gen.pc \in {"initial", "loop"}
    /\ ~gen.clean
    /\ gen.applied # <<>>
    /\ gen.applied[1].side = "ask"
    /\ \A l \in Range(tickData.checkpoint.asks) : ParseFloat(l.sz) # gen.applied[1].size
    /\ \E i \in 1..Len(asks) : /\ asks[i].key = gen.applied[1].price
                               /\ asks[i].value.size # gen.applied[1].size

C20_Step ==
    /\ ret'.op # "iterate" => IsPrefix(gen.yielded, gen'.yielded)
    /\ ret'.op \in {"applyDelta", "initialize", "getSnapshot"} => gen'.yielded = gen.yielded
    /\ Len(gen'.yielded) = Len(gen.yielded) + 1 =>
           Last(gen'.yielded) = getSnapshot(This', gen'.options.depth)
    /\ (ret'.op = "reconstructAll" /\ EmitAll(ret'.options)) =>
           \A k \in 0..Len(tickData.deltas) :
               ret'.value[k + 1] =
                   getSnapshot(StateAfter(tickData.checkpoint,
                                          SortDeltas(tickData.deltas), k),
                               ret'.options.depth)

AloneFirst ==
    reconstructAll(tickData.checkpoint, tickData.deltas,
                   EmitAllTrue(gen.options.depth)).snapshots

AloneOther ==
    reconstructAll(OtherTickData.checkpoint, OtherTickData.deltas,
                   EmitAllTrue(gen2.options.depth)).snapshots

\* C21: a lazy sequence yields something other than the elements
\* reconstructAll gives for its own checkpoint and deltas only when the other
\* sequence was made on the same instance and has written the shared store
\* in between (this happens: C21_Witness); when the two sequences run on two
\* distinct instances, every interleaving of their requests yields for each
\* the elements it yields alone, all of them once it has ended.
C21_IsolatedOnDistinctInstances ==
    /\ ~IsPrefix(gen.yielded, AloneFirst) => (gen2.on = "this" /\ ~gen.clean)
    /\ ~IsPrefix(gen2.yielded, AloneOther) => gen2.on = "this"
    /\ gen2.on = "that" =>
           /\ IsPrefix(gen.yielded, AloneFirst)
           /\ gen.pc = "done" => gen.yielded = AloneFirst
           /\ IsPrefix(gen2.yielded, AloneOther)
           /\ gen2.pc = "done" => gen2.yielded = AloneOther
           /\ gen.clean

\* Both sequences were made on the same instance, and the first has just
\* yielded a snapshot that reconstructAll does not give for its own
\* checkpoint and deltas: the other sequence has written the shared store.
C21_Witness ==
    /\ gen2.on = "this"
    /\ ret.op = "next"
    /\ ret.value # <<>>
    /\ gen2.pc \in {"initial", "loop", "done"}
    /\ ~gen.clean
    /\ ~IsPrefix(gen.yielded, AloneFirst)

\* Two sequences on two instances have both run to their end, their
\* requests interleaved: the second started after the first had yielded.
C21_WitnessDistinct ==
    /\ gen2.on = "that"
    /\ gen.pc = "done"
    /\ gen2.pc = "done"
    /\ Len(gen.yielded) = 3
    /\ Len(gen2.yielded) = 3
    /\ that # This

(***************************************************************************)
(* Properties of the gap detector (specification SpecGaps).                *)
(***************************************************************************)
\* The sequence numbers of a delta list in ascending order: the one
\* non-decreasing arrangement of them.
SortedSequences(deltas) ==
    LET n == Len(deltas)
        nums == {deltas[i].sequence : i \in 1..n}
    IN  CHOOSE q \in [1..n -> nums] :
            /\ \A i \in 1..n - 1 : q[i] <= q[i + 1]
            /\ \A s \in nums : Cardinality({i \in 1..n : q[i] = s})
                                 = Cardinality({i \in 1..n : deltas[i].sequence = s})

\* One pair (previous + 1, actual) for each adjacent pair of the ascending
\* sequence numbers whose second is not the first plus 1, in that order.
ExpectedGaps(deltas) ==
    LET q == SortedSequences(deltas)
        pairs == [i \in 1..Len(deltas) - 1 |-> <<q[i] + 1, q[i + 1]>>]
    IN  SelectSeq(pairs, LAMBDA p : p[1] # p[2])

\* The sequence numbers are pairwise distinct and fill an interval.
Contiguous(deltas) ==
    LET q == SortedSequences(deltas)
    IN  \A i \in 1..Len(deltas) - 1 : q[i + 1] = q[i] + 1

\* C16: for a delta list in any order detectGaps returns, in ascending order
\* of sequence, one pair (previous.sequence + 1, actual.sequence) for each
\* adjacent pair of the sorted list whose second sequence is not the first
\* plus 1, a repeated sequence number included, and nothing else; the result
\* is empty for fewer than 2 deltas and for a contiguous list.
C16_DetectGaps ==
    ret.op = "detectGaps" =>
        /\ ret.value = ExpectedGaps(tickData.deltas)
        /\ \A i \in 1..Len(ret.value) - 1 : ret.value[i][2] <= ret.value[i + 1][2]
        /\ Len(tickData.deltas) < 2 => ret.value = <<>>
        /\ Contiguous(tickData.deltas) => ret.value = <<>>

\* A list given out of order with a repeated sequence number and a missing
\* one: both are reported.
C16_Witness ==
    /\ ret.op = "detectGaps"
    /\ Len(tickData.deltas) = 3
    /\ tickData.deltas[1].sequence > tickData.deltas[2].sequence
    /\ \E i \in 1..Len(ret.value) : ret.value[i][2] < ret.value[i][1]
    /\ \E i \in 1..Len(ret.value) : ret.value[i][2] > ret.value[i][1]

(***************************************************************************)
(* Properties of the gap detector among replay steps (SpecDiagnostics).    *)
(***************************************************************************)
C22_Step ==
    /\ tickData' = tickData
    /\ ret'.op = "detectGaps" =>
           /\ UNCHANGED <<bids, asks, coin, lastTimestamp, lastSequence, gen>>
           /\ ret'.value = ExpectedGaps(tickData.deltas)
    /\ Len(gen'.yielded) = Len(gen.yielded) + 1 =>
           (gen'.clean => IsPrefix(gen'.yielded, AloneFirst))
    /\ ret'.op = "reconstructAll" =>
           \A k \in 0..Len(tickData.deltas) :
               ret'.value[k + 1] =
                   getSnapshot(StateAfter(tickData.checkpoint,
                                          SortDeltas(tickData.deltas), k),
                               ret'.options.depth)
    /\ ret'.op = "reconstructFinal" =>
           ret'.value[1] =
               getSnapshot(StateAfter(tickData.checkpoint, SortDeltas(tickData.deltas),
                                      Len(tickData.deltas)),
                           ret'.options.depth)

\* C22: detectGaps and the three replay modes leave the caller's delta list
\* as it was, same elements in the same order; a detectGaps call changes
\* nothing of the reconstructor nor of a suspended lazy sequence; and with
\* detectGaps called before, between and after them the replay steps
\* produce the snapshots they produce without it.
C22_DiagnosticOnly == [][C22_Step]_vars

\* detectGaps was the last call, it found a gap in a list given out of
\* order, between two requests of a lazy sequence; the list is still out of
\* order.
C22_Witness ==
    /\ ret.op = "detectGaps"
    /\ ret.value # <<>>
    /\ gen.pc = "loop"
    /\ gen.clean
    /\ gen.i < Len(tickData.deltas)
    /\ Len(tickData.deltas) = 2
    /\ tickData.deltas[1].sequence > tickData.deltas[2].sequence

====
